---- MODULE Spec2Model ----
(***************************************************************************)
(* Model of the BGP table of bgp_oxide (src/src/table.rs): the decision    *)
(* order on DecisionProcessData, the path-attribute table, the per-        *)
(* destination min-heaps and BgpTable::walk; and of the message            *)
(* constructors and serializers (message_types.rs, errors.rs,              *)
(* msg_encoder.rs); and of the peer session and its builder (fsm_ds.rs).   *)
(***************************************************************************)
EXTENDS Integers, Sequences, FiniteSets, Bags, TLC

VARIABLES
    table,          \* BgpTable.table: (prefix, len) -> heap array of PAT entries
    table_version,  \* BgpTable.table_version
    pa_table,       \* BgpTable.pa_table: bag of handles, entry -> handles the set holds
    op,             \* "new" after BgpTable::new, "walk" after a walk, "idle" between walks
    payload,        \* the ReceivedRoutes of the last walk
    ret,            \* the (removed_routes, adv_routes) the last walk returned
    old,            \* table, pa_table and table_version before the last walk
    prev,           \* what is remembered of the walk before the last one
    lhs, rhs, third,\* DecisionProcessData records handed to cmp
    ords,           \* the results of the comparisons, <<>> before comparing
    req,            \* the arguments of a message or subcode constructor
    built,          \* None, or Some(what the constructor returned)
    buf,            \* None, or Some(the octets the serializer returned)
    decoded,        \* None, or Some(what the decoder returned)
    builder,        \* None, or Some(the PeerSessionBuilder under construction)
    calls,          \* per builder setter: None, or Some(the last value it was given)
    session,        \* None, or Some(the PeerSession)
    sent,           \* the NOTIFICATION messages the session has sent
    event,          \* the last FSM event handled and the state it came in
    vecs,           \* two Vec<PathAttr> handed to PathAttributeTableEntry::new
    entries,        \* None, or Some(the two entries built from vecs)
    interned,       \* a PathAttributeTable the two entries were inserted into
    plan,           \* two sequences of payloads, one per run of a BgpTable
    runs,           \* the table, PAT and version of each of the two runs
    steps           \* how many payloads of its plan each run has walked

fsmVars == <<builder, calls, session, sent, event>>
internVars == <<vecs, entries, interned>>
runVars == <<plan, runs, steps>>

vars == <<table, table_version, pa_table, op, payload, ret, old, prev,
          lhs, rhs, third, ords, req, built, buf, decoded, fsmVars,
          internVars, runVars>>

-----------------------------------------------------------------------------
(* Option<T>: None is the empty sequence, Some(x) is <<x>>.                *)
None == <<>>
Some(x) == <<x>>
IsSome(o) == Len(o) = 1
Unwrap(o) == o[1]

(* std::cmp::Ordering and the integer comparison the fields use.           *)
IntCmp(x, y) == IF x < y THEN "Less" ELSE IF x > y THEN "Greater" ELSE "Equal"
Then(o1, o2) == IF o1 = "Equal" THEN o2 ELSE o1

(* RouteSource and its conversion to u8.                                   *)
RouteSource == {"Ebgp", "Ibgp"}

(* A mutant of the conversion: the two values swapped.                     *)
RouteSourceU8Swapped(rs) == IF rs = "Ebgp" THEN 1 ELSE 0

RouteSourceU8(rs) == IF rs = "Ebgp" THEN 0 ELSE 1

(* IpAddr is <<family, address>>; the derived order puts V4 before V6.     *)
IpAddrCmp(x, y) == Then(IntCmp(x[1], y[1]), IntCmp(x[2], y[2]))

(* DecisionProcessData::new: the summary copied out of a payload.          *)
DecisionProcessData(data) ==
    [local_pref  |-> data.local_pref,
     as_path_len |-> data.as_path_len,
     last_as     |-> data.last_as,
     origin      |-> data.origin,
     med         |-> data.med,
     route_souce |-> data.route_source,
     igp_cost    |-> data.igp_cost,
     peer_id     |-> data.peer_id,
     peer_addr   |-> data.peer_addr]

(* The closure f of partial_cmp: every stage after local preference.       *)
LaterStages(self, other) ==
    LET comp1 == Then(IntCmp(self.as_path_len, other.as_path_len),
                      IntCmp(self.origin, other.origin))
        comp2 == IF self.last_as = other.last_as
                 THEN Then(comp1, IntCmp(self.med, other.med))
                 ELSE comp1
    IN  Then(Then(Then(Then(comp2,
             IntCmp(RouteSourceU8(self.route_souce), RouteSourceU8(other.route_souce))),
             IntCmp(self.igp_cost, other.igp_cost)),
             IntCmp(self.peer_id, other.peer_id)),
             IpAddrCmp(self.peer_addr, other.peer_addr))

(* A mutant of partial_cmp: MED compared whatever last_as is.              *)
CmpMedUngated(self, other) ==
    LET lp == IF IsSome(self.local_pref) /\ IsSome(other.local_pref)
              THEN IntCmp(Unwrap(other.local_pref), Unwrap(self.local_pref))
              ELSE "Equal"
        rest == Then(Then(Then(Then(Then(Then(
                    IntCmp(self.as_path_len, other.as_path_len),
                    IntCmp(self.origin, other.origin)),
                    IntCmp(self.med, other.med)),
                    IntCmp(RouteSourceU8(self.route_souce), RouteSourceU8(other.route_souce))),
                    IntCmp(self.igp_cost, other.igp_cost)),
                    IntCmp(self.peer_id, other.peer_id)),
                    IpAddrCmp(self.peer_addr, other.peer_addr))
    IN  Then(lp, rest)

(* A mutant of partial_cmp: a summary without local preference orders      *)
(* before one that has it.                                                 *)
CmpNoneFirst(self, other) ==
    IF IsSome(self.local_pref) /\ IsSome(other.local_pref)
    THEN Then(IntCmp(Unwrap(other.local_pref), Unwrap(self.local_pref)),
              LaterStages(self, other))
    ELSE IF IsSome(other.local_pref) THEN "Less"
    ELSE IF IsSome(self.local_pref) THEN "Greater"
    ELSE LaterStages(self, other)

(* DecisionProcessData::partial_cmp (and cmp, which unwraps it).           *)
Cmp(self, other) ==
    LET lp_ord == IF IsSome(self.local_pref) /\ IsSome(other.local_pref)
                  THEN Some(IntCmp(Unwrap(other.local_pref), Unwrap(self.local_pref)))
                  ELSE None
    IN  IF IsSome(lp_ord) /\ Unwrap(lp_ord) # "Equal"
        THEN Unwrap(lp_ord)
        ELSE LaterStages(self, other)

-----------------------------------------------------------------------------
(* PathAttr: the type code and the value octets are all the table reads.   *)
PathAttr(code, value) == [attr_type_code |-> code, attr_value |-> value]

(* Stable insertion of pa by type code: one step of sort_by_cached_key.    *)
RECURSIVE InsertByCode(_, _)
InsertByCode(sorted, pa) ==
    IF sorted = <<>> THEN <<pa>>
    ELSE IF sorted[Len(sorted)].attr_type_code <= pa.attr_type_code
         THEN Append(sorted, pa)
         ELSE Append(InsertByCode(SubSeq(sorted, 1, Len(sorted) - 1), pa),
                     sorted[Len(sorted)])

(* raw_pas.sort_by_cached_key(|pa| pa.attr_type_code()): a stable sort.    *)
RECURSIVE SortByTypeCode(_)
SortByTypeCode(raw_pas) ==
    IF raw_pas = <<>> THEN <<>>
    ELSE InsertByCode(SortByTypeCode(SubSeq(raw_pas, 1, Len(raw_pas) - 1)),
                      raw_pas[Len(raw_pas)])

(* A mutant of new: the attributes stay in the order given.                *)
PathAttributeTableEntryUnsorted(decision_data, raw_pas) ==
    [decision_data |-> decision_data, raw_path_attrs |-> raw_pas]

(* PathAttributeTableEntry::new.                                           *)
PathAttributeTableEntry(decision_data, raw_pas) ==
    [decision_data |-> decision_data, raw_path_attrs |-> SortByTypeCode(raw_pas)]

(* PartialOrd/Ord of PathAttributeTableEntry: the decision data alone.     *)
EntryCmp(self, other) == Cmp(self.decision_data, other.decision_data)

(* A mutant of insert: a new handle is stored whatever the set holds.      *)
PatInsertAlways(pat, entry) == pat (+) SetToBag({entry})

(* PathAttributeTable::insert: get_or_insert stores a new handle only if   *)
(* no handle to an equal entry is in the set.                              *)
PatInsert(pat, entry) ==
    IF BagIn(entry, pat) THEN pat ELSE pat (+) SetToBag({entry})

(* Rc::strong_count of an interned entry: the table's own handle plus one  *)
(* for every heap slot that holds it.                                      *)
RECURSIVE HeapRefs(_, _, _)
HeapRefs(tbl, keys, entry) ==
    IF keys = {} THEN 0
    ELSE LET k == CHOOSE x \in keys : TRUE
         IN  Cardinality({i \in DOMAIN tbl[k] : tbl[k][i] = entry})
             + HeapRefs(tbl, keys \ {k}, entry)

StrongCount(tbl, entry) == 1 + HeapRefs(tbl, DOMAIN tbl, entry)

(* A mutant of remove_stale: nothing is dropped.                           *)
RemoveStaleKeepsAll(pat, tbl) == pat

(* A mutant of remove_stale: an entry held by a single heap slot is        *)
(* dropped as well.                                                        *)
RemoveStaleDropsHeld(pat, tbl) ==
    [rc \in {x \in BagToSet(pat) : StrongCount(tbl, x) > 2} |-> pat[rc]]

(* PathAttributeTable::remove_stale.                                       *)
RemoveStale(pat, tbl) ==
    [rc \in {x \in BagToSet(pat) : StrongCount(tbl, x) > 1} |-> pat[rc]]

-----------------------------------------------------------------------------
(* BinaryHeap<Reverse<Rc<PathAttributeTableEntry>>> as its backing array;  *)
(* Rust index i is position i + 1 here.                                    *)
Range(seq) == {seq[i] : i \in DOMAIN seq}

Swap(data, i, j) == [data EXCEPT ![i + 1] = data[j + 1], ![j + 1] = data[i + 1]]

(* sift_up(0, pos): the element rises while its parent is strictly worse.  *)
RECURSIVE SiftUp(_, _)
SiftUp(data, pos) ==
    IF pos = 0 THEN data
    ELSE LET parent == (pos - 1) \div 2
         IN  IF EntryCmp(data[parent + 1], data[pos + 1]) # "Greater"
             THEN data
             ELSE SiftUp(Swap(data, pos, parent), parent)

(* sift_down_range(pos, end).                                              *)
RECURSIVE SiftDownRange(_, _, _)
SiftDownRange(data, pos, end) ==
    LET child == 2 * pos + 1
    IN  IF end >= 2 /\ child <= end - 2
        THEN LET c == IF EntryCmp(data[child + 2], data[child + 1]) # "Greater"
                      THEN child + 1 ELSE child
             IN  IF EntryCmp(data[c + 1], data[pos + 1]) # "Less"
                 THEN data
                 ELSE SiftDownRange(Swap(data, pos, c), c, end)
        ELSE IF child = end - 1 /\ EntryCmp(data[child + 1], data[pos + 1]) = "Less"
             THEN Swap(data, pos, child)
             ELSE data

(* rebuild: sift_down(n) for n = len/2 - 1 down to 0.                      *)
RECURSIVE RebuildFrom(_, _)
RebuildFrom(data, n) ==
    IF n = 0 THEN data
    ELSE RebuildFrom(SiftDownRange(data, n - 1, Len(data)), n - 1)

Rebuild(data) == RebuildFrom(data, Len(data) \div 2)

RECURSIVE Log2Fast(_)
Log2Fast(x) == IF x <= 1 THEN 0 ELSE 1 + Log2Fast(x \div 2)

RECURSIVE SiftUpTail(_, _)
SiftUpTail(data, i) ==
    IF i >= Len(data) THEN data ELSE SiftUpTail(SiftUp(data, i), i + 1)

(* rebuild_tail(start): what retain runs after filtering the array.        *)
RebuildTail(data, start) ==
    IF start = Len(data) THEN data
    ELSE LET tail_len == Len(data) - start
             better_to_rebuild ==
                 IF start < tail_len THEN TRUE
                 ELSE IF Len(data) <= 2048
                      THEN 2 * Len(data) < tail_len * Log2Fast(start)
                      ELSE 2 * Len(data) < tail_len * 11
         IN  IF better_to_rebuild THEN Rebuild(data) ELSE SiftUpTail(data, start)

(* BinaryHeap::push.                                                       *)
HeapPush(data, item) == SiftUp(Append(data, item), Len(data))

(* BinaryHeap::retain: filter in array order, then rebuild the tail from   *)
(* the first removed index. The predicate is given as the set of elements  *)
(* it accepts.                                                             *)
HeapRetain(data, accepted) ==
    LET keep(x) == x \in accepted
        gone == {i \in DOMAIN data : ~keep(data[i])}
        first_removed == IF gone = {} THEN Len(data)
                         ELSE (CHOOSE i \in gone : \A j \in gone : i <= j) - 1
        kept == SelectSeq(data, keep)
    IN  RebuildTail(kept, IF first_removed > Len(kept) THEN Len(kept) ELSE first_removed)

-----------------------------------------------------------------------------
(* BgpTableEntry: the paths heap of one destination.                       *)
EntryNew(pa_entry) == HeapPush(<<>>, pa_entry)

(* BgpTableEntry::is_in.                                                   *)
IsIn(paths, pa_entry) == Cardinality({i \in DOMAIN paths : paths[i] = pa_entry}) # 0

(* A mutant of insert: the duplicate check is dropped.                     *)
EntryInsertAlways(paths, pa_entry) == HeapPush(paths, pa_entry)

(* BgpTableEntry::insert.                                                  *)
EntryInsert(paths, pa_entry) ==
    IF IsIn(paths, pa_entry) THEN paths ELSE HeapPush(paths, pa_entry)

(* BgpTableEntry::bestpath: the top of the heap.                           *)
Bestpath(paths) == paths[1]

(* A mutant of remove: only the path equal to the given entry goes.        *)
EntryRemoveExact(paths, path) ==
    HeapRetain(paths, {x \in Range(paths) : x # path})

(* A mutant of remove: the paths of every peer go.                         *)
EntryRemoveAnyPeer(paths, path) == HeapRetain(paths, {})

(* BgpTableEntry::remove: every path of the entry's peer goes.             *)
EntryRemove(paths, path) ==
    HeapRetain(paths, {x \in Range(paths) :
                          x.decision_data.peer_id # path.decision_data.peer_id})

-----------------------------------------------------------------------------
(* Route::new and Route::prefix_v4.                                        *)
Route(length, prefix) == [length |-> length, prefix |-> prefix]
V4(addr) == <<4, addr>>
V6(addr) == <<6, addr>>
PrefixV4(route) == IF route.prefix[1] = 4 THEN Some(route.prefix[2]) ELSE None

(* The key of a destination in BgpTable.table.                             *)
DestKey(dest) == <<Unwrap(PrefixV4(dest)), dest.length>>

EmptyMap == <<>>
MapPut(m, k, v) == [x \in DOMAIN m \cup {k} |-> IF x = k THEN v ELSE m[x]]
(* A mutant of HashMap::remove: the key stays.                             *)
MapDelKeeps(m, k) == m

MapDel(m, k) == [x \in DOMAIN m \ {k} |-> m[x]]

(* AdvertisedRoutes::entry: push onto the key's routes or start them.      *)
AdvEntry(routes, key, prefix, prefix_len) ==
    IF key \in DOMAIN routes
    THEN MapPut(routes, key, Append(routes[key], Route(prefix_len, V4(prefix))))
    ELSE MapPut(routes, key, <<Route(prefix_len, V4(prefix))>>)

(* A mutant of the advertisement closure: the route is emitted whether or  *)
(* not the inserted path became the bestpath.                              *)
AdvertiseDestAlways(st, pat_entry_ref, dest) ==
    LET key == DestKey(dest)
        emitted == AdvEntry(st.adv_routes, pat_entry_ref.raw_path_attrs,
                            key[1], dest.length)
    IN  IF key \in DOMAIN st.table
        THEN [st EXCEPT !.table = MapPut(st.table, key,
                                         EntryInsert(st.table[key], pat_entry_ref)),
                        !.adv_routes = emitted]
        ELSE [st EXCEPT !.table = MapPut(st.table, key, EntryNew(pat_entry_ref)),
                        !.adv_routes = emitted]

(* One pass of the closure over payload.routes(): st carries the table,    *)
(* adv_routes and removed_routes of the walk in progress.                  *)
AdvertiseDest(st, pat_entry_ref, dest) ==
    LET key == DestKey(dest)
        emitted == AdvEntry(st.adv_routes, pat_entry_ref.raw_path_attrs,
                            key[1], dest.length)
    IN  IF key \in DOMAIN st.table
        THEN LET paths == EntryInsert(st.table[key], pat_entry_ref)
             IN  [st EXCEPT !.table = MapPut(st.table, key, paths),
                            !.adv_routes = IF Bestpath(paths) = pat_entry_ref
                                           THEN emitted ELSE @]
        ELSE [st EXCEPT !.table = MapPut(st.table, key, EntryNew(pat_entry_ref)),
                        !.adv_routes = emitted]

(* A mutant of the withdrawal closure: an emptied entry stays in the table.*)
WithdrawDestKeepsEmpty(st, pat_entry_ref, dest) ==
    LET key == DestKey(dest)
    IN  IF key \in DOMAIN st.table /\ st.table[key] # <<>>
        THEN LET paths == EntryRemove(st.table[key], pat_entry_ref)
             IN  [st EXCEPT !.table = MapPut(st.table, key, paths),
                            !.removed_routes =
                                IF paths = <<>>
                                THEN Append(@, Route(dest.length, V4(key[1])))
                                ELSE @]
        ELSE st

(* A mutant of the withdrawal closure: the bestpath left behind is         *)
(* advertised whether or not the bestpath was the peer's.                  *)
WithdrawDestReadvertises(st, pat_entry_ref, dest) ==
    LET key == DestKey(dest)
    IN  IF key \in DOMAIN st.table
        THEN LET paths == EntryRemove(st.table[key], pat_entry_ref)
             IN  IF paths = <<>>
                 THEN [st EXCEPT !.table = MapDel(st.table, key),
                                 !.removed_routes =
                                     Append(@, Route(dest.length, V4(key[1])))]
                 ELSE [st EXCEPT !.table = MapPut(st.table, key, paths),
                                 !.adv_routes =
                                     AdvEntry(@, Bestpath(paths).raw_path_attrs,
                                              key[1], dest.length)]
        ELSE st

(* One pass of the closure over payload.withdrawn_routes().                *)
WithdrawDest(st, pat_entry_ref, dest) ==
    LET key == DestKey(dest)
    IN  IF key \in DOMAIN st.table
        THEN LET bgp_table_entry == st.table[key]
                 was_best == Bestpath(bgp_table_entry).decision_data.peer_id
                                 = pat_entry_ref.decision_data.peer_id
                 paths == EntryRemove(bgp_table_entry, pat_entry_ref)
             IN  IF paths = <<>>
                 THEN [st EXCEPT !.table = MapDel(st.table, key),
                                 !.removed_routes =
                                     Append(@, Route(dest.length, V4(key[1])))]
                 ELSE [st EXCEPT !.table = MapPut(st.table, key, paths),
                                 !.adv_routes =
                                     IF was_best
                                     THEN AdvEntry(@, Bestpath(paths).raw_path_attrs,
                                                   key[1], dest.length)
                                     ELSE @]
        ELSE st

(* new_paths.iter().filter(v4).for_each(...), from position i.             *)
RECURSIVE AdvertiseAll(_, _, _, _)
AdvertiseAll(st, pat_entry_ref, new_paths, i) ==
    IF i > Len(new_paths) THEN st
    ELSE AdvertiseAll(IF IsSome(PrefixV4(new_paths[i]))
                      THEN AdvertiseDest(st, pat_entry_ref, new_paths[i])
                      ELSE st,
                      pat_entry_ref, new_paths, i + 1)

(* del_paths.iter().filter(v4).for_each(...), from position i.             *)
RECURSIVE WithdrawAll(_, _, _, _)
WithdrawAll(st, pat_entry_ref, del_paths, i) ==
    IF i > Len(del_paths) THEN st
    ELSE WithdrawAll(IF IsSome(PrefixV4(del_paths[i]))
                     THEN WithdrawDest(st, pat_entry_ref, del_paths[i])
                     ELSE st,
                     pat_entry_ref, del_paths, i + 1)

(* A mutant of increment_version: the counter stays.                       *)
IncrementVersionStuck(version) == version

(* BgpTable::increment_version.                                            *)
IncrementVersion(version) == version + 1

(* A mutant of the version test: only removed destinations count.          *)
DeltaNonEmptyRemovedOnly(removed_routes, adv_routes) == removed_routes # <<>>

(* !removed_routes.is_empty() || !adv_routes.is_empty()                    *)
DeltaNonEmpty(removed_routes, adv_routes) ==
    removed_routes # <<>> \/ DOMAIN adv_routes # {}

(* BgpTable::walk: the table, PAT and version after the walk and the       *)
(* (removed_routes, adv_routes) it returns.                                *)
WalkResult(tbl, pat, version, rx) ==
    LET ddata == DecisionProcessData(rx)
        pat_entry == PathAttributeTableEntry(ddata, rx.path_attrs)
        pat1 == PatInsert(pat, pat_entry)
        st0 == [table |-> tbl, adv_routes |-> EmptyMap, removed_routes |-> <<>>]
        st1 == IF IsSome(rx.routes)
               THEN AdvertiseAll(st0, pat_entry, Unwrap(rx.routes), 1) ELSE st0
        st2 == IF IsSome(rx.withdrawn_routes)
               THEN WithdrawAll(st1, pat_entry, Unwrap(rx.withdrawn_routes), 1) ELSE st1
    IN  [table |-> st2.table,
         pa_table |-> RemoveStale(pat1, st2.table),
         table_version |-> IF DeltaNonEmpty(st2.removed_routes, st2.adv_routes)
                           THEN IncrementVersion(version) ELSE version,
         removed_routes |-> st2.removed_routes,
         adv_routes |-> st2.adv_routes]

-----------------------------------------------------------------------------
(* The payloads handed to walk.                                            *)
MaxRoutes == 2      \* routes and withdrawn routes of one payload, together
MaxVersion == 3     \* walks stop once table_version reaches it

Origin(v) == PathAttr(1, <<v>>)
Med(v) == PathAttr(4, <<0, 0, 0, v>>)
AtomicAggregate == PathAttr(6, <<>>)

(* The attribute bundles peers send: the summary fields of ReceivedRoutes  *)
(* and its path attributes, in the order the UPDATE carried them.          *)
Bundle(peer, as, med, igp, pas) ==
    [peer_id |-> peer, peer_addr |-> V4(peer), last_as |-> as,
     local_pref |-> Some(100), as_path_len |-> 5, origin |-> 0, med |-> med,
     route_source |-> "Ebgp", igp_cost |-> igp, path_attrs |-> pas]

Bundles ==
    { Bundle(1, 65000, 1, 0, <<Med(1), Origin(0)>>),
      Bundle(2, 65001, 0, 1, <<Med(0), Origin(0)>>),
      Bundle(1, 65000, 1, 0, <<AtomicAggregate, Med(1), Origin(0)>>),
      Bundle(1, 65000, 0, 2, <<Origin(0), Med(0)>>),
      Bundle(2, 65001, 0, 1, <<Origin(0), Med(0)>>) }

Routes == { Route(8, V4(10)), Route(16, V4(10)) }
Route6 == Route(8, V6(10))

(* Route lists of at most n IPv4 routes, no route twice in one list.       *)
RouteLists(n) ==
    UNION { { l \in [1..k -> Routes] : \A i, j \in 1..k : l[i] = l[j] => i = j } :
            k \in 0..n }

(* The (routes, withdrawn routes) of a payload: IPv4 lists of at most      *)
(* MaxRoutes routes together, and lists that carry an IPv6 route.          *)
RouteShapes ==
    { x \in RouteLists(MaxRoutes) \X RouteLists(MaxRoutes) :
        Len(x[1]) + Len(x[2]) <= MaxRoutes }
    \cup
    { <<<<Route6>>, <<>>>>,
      <<<<>>, <<Route6>>>>,
      <<<<Route6, Route(8, V4(10))>>, <<>>>>,
      <<<<>>, <<Route6, Route(8, V4(10))>>>>,
      <<<<Route(16, V4(10))>>, <<Route6>>>> }

Opt(list) == IF list = <<>> THEN None ELSE Some(list)

Payloads ==
    { [peer_id |-> b.peer_id, peer_addr |-> b.peer_addr, last_as |-> b.last_as,
       local_pref |-> b.local_pref, as_path_len |-> b.as_path_len,
       origin |-> b.origin, med |-> b.med, route_source |-> b.route_source,
       igp_cost |-> b.igp_cost, path_attrs |-> b.path_attrs,
       routes |-> Opt(l[1]), withdrawn_routes |-> Opt(l[2])] :
      b \in Bundles, l \in RouteShapes }

(* num_destinations, num_paths and num_pa_entries.                         *)
RECURSIVE SumLen(_, _)
SumLen(tbl, keys) ==
    IF keys = {} THEN 0
    ELSE LET k == CHOOSE x \in keys : TRUE
         IN  Len(tbl[k]) + SumLen(tbl, keys \ {k})

NumDestinations(tbl) == Cardinality(DOMAIN tbl)
NumPaths(tbl) == SumLen(tbl, DOMAIN tbl)
NumPaEntries(pat) == BagCardinality(pat)

Counters(tbl, pat) ==
    [num_destinations |-> NumDestinations(tbl),
     num_paths |-> NumPaths(tbl),
     num_pa_entries |-> NumPaEntries(pat)]

NoPayload == [peer_id |-> 0]
NoReturn == [removed_routes |-> <<>>, adv_routes |-> EmptyMap]
NoWalk == [advertise_only |-> FALSE]
Snapshot(tbl, pat, version) ==
    [table |-> tbl, pa_table |-> pat, table_version |-> version]

(* What is remembered of a walk once its delta is dropped: for a walk that *)
(* only advertised, its peer, its routes and the counters before it.       *)
Remembered ==
    IF op = "walk" /\ IsSome(payload.routes) /\ ~IsSome(payload.withdrawn_routes)
    THEN [advertise_only |-> TRUE,
          peer_id |-> payload.peer_id,
          routes |-> Unwrap(payload.routes),
          dests |-> DOMAIN old.table,
          counters |-> Counters(old.table, old.pa_table)]
    ELSE NoWalk

(* No constructor has been called.                                         *)
NoRequest == [kind |-> "none"]

(* No builder setter has been called; no builder or session exists; no     *)
(* entry has been built apart from a table and no second table is run.     *)
NoCalls == [conn_retry_time |-> None, hold_time |-> None, keep_time |-> None]
NoEvent == [name |-> "none"]
InternIdle == vecs = <<<<>>, <<>>>> /\ entries = None /\ interned = EmptyBag
RunsIdle ==
    /\ plan = <<<<>>, <<>>>> /\ steps = <<0, 0>>
    /\ runs = <<Snapshot(EmptyMap, EmptyBag, 0), Snapshot(EmptyMap, EmptyBag, 0)>>
SideIdle == InternIdle /\ RunsIdle

FsmIdle ==
    /\ builder = None /\ calls = NoCalls /\ session = None
    /\ sent = <<>> /\ event = NoEvent
    /\ SideIdle

(* A default summary for the comparison variables.                         *)
DefaultData == DecisionProcessData(Bundle(1, 65000, 0, 0, <<>>))

(* BgpTable::<Ipv4Addr>::new.                                              *)
Init ==
    /\ table = EmptyMap
    /\ table_version = 0
    /\ pa_table = EmptyBag
    /\ op = "new"
    /\ payload = NoPayload
    /\ ret = NoReturn
    /\ old = Snapshot(EmptyMap, EmptyBag, 0)
    /\ prev = NoWalk
    /\ lhs = DefaultData /\ rhs = DefaultData /\ third = DefaultData
    /\ ords = <<>>
    /\ req = NoRequest /\ built = None /\ buf = None /\ decoded = None
    /\ FsmIdle

(* The state change of one walk(rx), with `remembered` left in prev.      *)
DoWalk(rx, remembered) ==
    \E r \in {WalkResult(table, pa_table, table_version, rx)} :
        /\ table' = r.table
        /\ pa_table' = r.pa_table
        /\ table_version' = r.table_version
        /\ op' = "walk"
        /\ payload' = rx
        /\ ret' = [removed_routes |-> r.removed_routes, adv_routes |-> r.adv_routes]
        /\ old' = Snapshot(table, pa_table, table_version)
        /\ prev' = remembered
        /\ UNCHANGED <<lhs, rhs, third, ords, req, built, buf, decoded, fsmVars,
                   internVars, runVars>>

(* table.walk(rx) for a payload rx; the caller holds the returned delta.   *)
Walk ==
    /\ op \in {"new", "idle"}
    /\ table_version < MaxVersion
    /\ \E rx \in Payloads : DoWalk(rx, NoWalk)

(* table.walk(rx) right after a walk that only advertised, for a payload   *)
(* of the same peer that withdraws the routes just advertised (as in       *)
(* tests::bgp_table_single_walk_add_remove).                               *)
WithdrawAdvertised ==
    /\ op = "walk"
    /\ prev = NoWalk
    /\ Remembered.advertise_only
    /\ table_version < MaxVersion
    /\ \E rx \in Payloads :
          /\ rx.peer_id = payload.peer_id
          /\ ~IsSome(rx.routes)
          /\ IsSome(rx.withdrawn_routes)
          /\ Len(Unwrap(rx.withdrawn_routes)) = Len(Unwrap(payload.routes))
          /\ \A i \in DOMAIN Unwrap(payload.routes) :
                \E k \in DOMAIN Unwrap(rx.withdrawn_routes) :
                    Unwrap(rx.withdrawn_routes)[k] = Unwrap(payload.routes)[i]
          /\ DoWalk(rx, Remembered)

(* The caller drops the delta (`_ = table.walk(rx)`) and is ready for the  *)
(* next payload.                                                           *)
Discard ==
    /\ op = "walk"
    /\ op' = "idle"
    /\ payload' = NoPayload
    /\ ret' = NoReturn
    /\ old' = Snapshot(table, pa_table, table_version)
    /\ prev' = NoWalk
    /\ UNCHANGED <<table, table_version, pa_table, lhs, rhs, third, ords,
                   req, built, buf, decoded, fsmVars,
                   internVars, runVars>>

Next == Walk \/ WithdrawAdvertised \/ Discard

Spec == Init /\ [][Next]_vars

-----------------------------------------------------------------------------
(* The decision order on its own: summaries drawn from small domains and   *)
(* compared pairwise.                                                      *)
LhsData ==
    [local_pref : {None, Some(1)}, as_path_len : {1}, last_as : {1}, origin : {1},
     med : {1}, route_souce : RouteSource, igp_cost : {1}, peer_id : {1},
     peer_addr : {V4(1), V6(1)}]

RhsData ==
    [local_pref : {None, Some(0), Some(1), Some(2)}, as_path_len : 0..2,
     last_as : {1, 2}, origin : 0..2, med : 0..2, route_souce : RouteSource,
     igp_cost : 0..2, peer_id : 0..2, peer_addr : {V4(0), V4(1), V4(2), V6(1)}]

TripleData ==
    [local_pref : {None, Some(1), Some(2)}, as_path_len : {1}, last_as : {1, 2},
     origin : {0}, med : {0, 1}, route_souce : {"Ebgp"}, igp_cost : 0..2,
     peer_id : {1}, peer_addr : {V4(1)}]

TableIdle ==
    /\ table = EmptyMap
    /\ table_version = 0
    /\ pa_table = EmptyBag
    /\ op = "new"
    /\ payload = NoPayload
    /\ ret = NoReturn
    /\ old = Snapshot(EmptyMap, EmptyBag, 0)
    /\ prev = NoWalk

InitCmp ==
    /\ TableIdle
    /\ lhs \in LhsData /\ rhs \in RhsData /\ third = DefaultData
    /\ ords = <<>>
    /\ req = NoRequest /\ built = None /\ buf = None /\ decoded = None
    /\ FsmIdle

InitCmp3 ==
    /\ TableIdle
    /\ lhs \in TripleData /\ rhs \in TripleData /\ third \in TripleData
    /\ ords = <<>>
    /\ req = NoRequest /\ built = None /\ buf = None /\ decoded = None
    /\ FsmIdle

(* lhs.cmp(&rhs) and the other comparisons among lhs, rhs and third.       *)
Compare ==
    /\ ords = <<>>
    /\ ords' = [ab |-> Cmp(lhs, rhs), ba |-> Cmp(rhs, lhs),
                bc |-> Cmp(rhs, third), ac |-> Cmp(lhs, third)]
    /\ UNCHANGED <<table, table_version, pa_table, op, payload, ret, old, prev,
                   lhs, rhs, third, req, built, buf, decoded, fsmVars,
                   internVars, runVars>>

NextCmp == Compare

SpecCmp == InitCmp /\ [][NextCmp]_vars

SpecCmp3 == InitCmp3 /\ [][NextCmp]_vars

-----------------------------------------------------------------------------
(* Message constructors (message_types.rs, errors.rs) and serializers      *)
(* (msg_encoder.rs). Octets are integers 0..255, buffers are sequences.    *)
OPEN_VALUE == 1
UPDATE_VALUE == 2
KEEP_VALUE == 3
NOT_VALUE == 4

MessageType == {"Open", "Update", "KeepAlive", "Notification"}

(* Header::new.                                                            *)
HeaderNew(length, message_type) ==
    LET mtype == CASE message_type = "Open" -> OPEN_VALUE
                   [] message_type = "Update" -> UPDATE_VALUE
                   [] message_type = "KeepAlive" -> KEEP_VALUE
                   [] message_type = "Notification" -> NOT_VALUE
    IN  [marker |-> [i \in 1..16 |-> 1], length |-> length, message_type |-> mtype]

(* BufMut::put_u8 and put_u16 (big-endian), as the octets appended.        *)
PutU8(x) == <<x>>
PutU16(x) == <<x \div 256, x % 256>>

(* to_be_bytes / octets(): x as n big-endian octets.                       *)
RECURSIVE BeBytes(_, _)
BeBytes(x, n) == IF n = 0 THEN <<>> ELSE Append(BeBytes(x \div 256, n - 1), x % 256)

(* HeaderSerializer::serialize.                                            *)
HeaderSerialize(msg) ==
    msg.marker \o PutU16(msg.length) \o PutU8(msg.message_type)

(* Result<T, SubcodeError>.                                                *)
Ok(v) == [ok |-> TRUE, value |-> v]
Err(e) == [ok |-> FALSE, error |-> e]

(* NotifErrorSubCode::msg_header_err, open_msg_err and update_msg_err.     *)
MsgHeaderErr(subcode) ==
    IF subcode \in {1, 2, 3}
    THEN Ok([variant |-> "MessageHeaderError", subcode |-> subcode])
    ELSE Err("Valid values are 1, 2, or 3.")

OpenMsgErr(subcode) ==
    IF subcode \in 1..6
    THEN Ok([variant |-> "OpenMessageError", subcode |-> subcode])
    ELSE Err("Valid values are integers 1 through 6.")

UpdateMsgErr(subcode) ==
    IF subcode \in 1..11
    THEN Ok([variant |-> "UpdateMessageError", subcode |-> subcode])
    ELSE Err("Valid values are integers 1 through 11.")

(* NotifErrorCode and its conversion to u8.                                *)
MSG_HEADER_ERR_VAL == 1
OPEN_MSG_ERR_VAL == 2
UPDATE_MSG_ERR_VAL == 3
HOLD_TIMER_EXP_ERR_VAL == 4
FSM_ERR_VAL == 5
CEASE_ERR_VAL == 6

NotifErrorCodeU8(value) ==
    CASE value = "MessageHeaderError" -> MSG_HEADER_ERR_VAL
      [] value = "OpenMessageError" -> OPEN_MSG_ERR_VAL
      [] value = "UpdateMessageError" -> UPDATE_MSG_ERR_VAL
      [] value = "HoldTimerExpired" -> HOLD_TIMER_EXP_ERR_VAL
      [] value = "FiniteStateMachineError" -> FSM_ERR_VAL
      [] value = "Cease" -> CEASE_ERR_VAL

(* Notification::new: error is the code with its inner subcode (None for   *)
(* the codes that have none); data is a usize, kept as its 8 octets.       *)
NotificationNew(error, data) ==
    [err_code |-> NotifErrorCodeU8(error.code),
     err_subcode |-> IF error.code \in {"MessageHeaderError", "OpenMessageError",
                                        "UpdateMessageError"}
                     THEN Unwrap(error.inner) ELSE 0,
     data |-> BeBytes(data, 8)]

(* NotificationSerializer::serialize.                                      *)
NotificationSerialize(msg) ==
    PutU8(msg.err_code) \o PutU8(msg.err_subcode) \o msg.data

(* RouteSerializer::serialize: the length, then every octet of the address.*)
RouteSerialize(msg) ==
    PutU8(msg.length)
    \o (IF msg.prefix[1] = 4 THEN BeBytes(msg.prefix[2], 4)
                             ELSE BeBytes(msg.prefix[2], 16))

(* The decoder (msg_decoder), from its description: each decoder returns   *)
(* the value read and the octets it left, or the error it raises.          *)
RECURSIVE FromBe(_)
FromBe(octets) ==
    IF octets = <<>> THEN 0
    ELSE 256 * FromBe(SubSeq(octets, 1, Len(octets) - 1)) + octets[Len(octets)]

Rest(octets, n) == SubSeq(octets, n + 1, Len(octets))
Read(v, rest) == [ok |-> TRUE, value |-> v, rest |-> rest]

DecodeHeader(octets) ==
    IF Len(octets) < 19 THEN Err("TRUNCATED")
    ELSE LET length == FromBe(SubSeq(octets, 17, 18))
             type == octets[19]
         IN  IF \E i \in 1..16 : octets[i] # 255 THEN Err("CONN_NOT_SYNCED")
             ELSE IF length < 19 \/ length > 4096 THEN Err("BAD_MSG_LEN")
             ELSE IF type \notin 1..4 THEN Err("BAD_MSG_TYPE")
             ELSE Read([length |-> length,
                        message_type |-> CASE type = 1 -> "Open"
                                           [] type = 2 -> "Update"
                                           [] type = 3 -> "Notification"
                                           [] type = 4 -> "KeepAlive"],
                       Rest(octets, 19))

DecodeNotification(octets) ==
    IF Len(octets) < 2 THEN Err("TRUNCATED")
    ELSE Read([err_code |-> octets[1], err_subcode |-> octets[2],
               data |-> Rest(octets, 2)], <<>>)

RECURSIVE Zeros(_)
Zeros(n) == IF n = 0 THEN <<>> ELSE Append(Zeros(n - 1), 0)

(* A route of the given address family: the length, then the             *)
(* ceil(length / 8) leading octets of the prefix.                          *)
DecodeRoute(octets, family) ==
    IF octets = <<>> THEN Err("TRUNCATED")
    ELSE LET length == octets[1]
             n == (length + 7) \div 8
             width == IF family = 4 THEN 4 ELSE 16
         IN  IF n > width THEN Err("INVALID_NETWORK_FIELD")
             ELSE IF Len(octets) < 1 + n THEN Err("TRUNCATED")
             ELSE Read(Route(length, <<family, FromBe(SubSeq(octets, 2, 1 + n)
                                                      \o Zeros(width - n))>>),
                       Rest(octets, 1 + n))

(* The constructor calls made: headers, subcodes, notifications, routes.   *)
NotifErrors ==
    { [code |-> "HoldTimerExpired", inner |-> None],
      [code |-> "FiniteStateMachineError", inner |-> None],
      [code |-> "Cease", inner |-> None],
      [code |-> "MessageHeaderError", inner |-> Some(2)],
      [code |-> "OpenMessageError", inner |-> Some(2)],
      [code |-> "UpdateMessageError", inner |-> Some(11)] }

Requests ==
    [kind : {"Header"}, length : {0, 19, 100, 4096, 4097, 65535},
     message_type : MessageType]
    \cup [kind : {"Subcode"},
          family : {"msg_header_err", "open_msg_err", "update_msg_err"},
          subcode : 0..255]
    \cup [kind : {"Notification"}, error : NotifErrors, data : {0, 1, 258}]
    \cup [kind : {"Route"}, length : {0, 8, 20, 32},
          prefix : {V4(167772160), V4(167838211), V6(1)}]

Construct(r) ==
    CASE r.kind = "Header" -> HeaderNew(r.length, r.message_type)
      [] r.kind = "Subcode" ->
            (CASE r.family = "msg_header_err" -> MsgHeaderErr(r.subcode)
               [] r.family = "open_msg_err" -> OpenMsgErr(r.subcode)
               [] r.family = "update_msg_err" -> UpdateMsgErr(r.subcode))
      [] r.kind = "Notification" -> NotificationNew(r.error, r.data)
      [] r.kind = "Route" -> Route(r.length, r.prefix)

Serialized(kind, msg) ==
    CASE kind = "Header" -> HeaderSerialize(msg)
      [] kind = "Notification" -> NotificationSerialize(msg)
      [] kind = "Route" -> RouteSerialize(msg)

Decoded(r, octets) ==
    CASE r.kind = "Header" -> DecodeHeader(octets)
      [] r.kind = "Notification" -> DecodeNotification(octets)
      [] r.kind = "Route" -> DecodeRoute(octets, r.prefix[1])

InitCodec ==
    /\ TableIdle
    /\ lhs = DefaultData /\ rhs = DefaultData /\ third = DefaultData
    /\ ords = <<>>
    /\ req \in Requests
    /\ built = None /\ buf = None /\ decoded = None
    /\ FsmIdle

(* The constructor is called with the arguments in req.                    *)
Build ==
    /\ built = None
    /\ built' = Some(Construct(req))
    /\ UNCHANGED <<table, table_version, pa_table, op, payload, ret, old, prev,
                   lhs, rhs, third, ords, req, buf, decoded, fsmVars,
                   internVars, runVars>>

(* The message built is handed to its serializer.                          *)
Serialize ==
    /\ IsSome(built)
    /\ req.kind \in {"Header", "Notification", "Route"}
    /\ buf = None
    /\ buf' = Some(Serialized(req.kind, Unwrap(built)))
    /\ UNCHANGED <<table, table_version, pa_table, op, payload, ret, old, prev,
                   lhs, rhs, third, ords, req, built, decoded, fsmVars,
                   internVars, runVars>>

(* The octets serialized are handed to the decoder.                        *)
Deserialize ==
    /\ IsSome(buf)
    /\ decoded = None
    /\ decoded' = Some(Decoded(req, Unwrap(buf)))
    /\ UNCHANGED <<table, table_version, pa_table, op, payload, ret, old, prev,
                   lhs, rhs, third, ords, req, built, buf, fsmVars,
                   internVars, runVars>>

NextCodec == Build \/ Serialize \/ Deserialize

SpecCodec == InitCodec /\ [][NextCodec]_vars

-----------------------------------------------------------------------------
(* The peer session and its builder (fsm_ds.rs).                           *)
DEFAULT_HOLD_TIME == 90
DEFAULT_KEEPALIVE_TIME == 30
DEFAULT_CONNECT_RETRY_TIME == 120

State == {"Idle", "Connect", "Active", "OpenSent", "OpenConfirm", "Established"}

(* PeerSessionBuilder::new.                                                *)
PeerSessionBuilderNew ==
    [state |-> "Idle",
     connect_retry_ctr |-> 0,
     connect_retry_timer |-> 0,
     connect_retry_time |-> DEFAULT_CONNECT_RETRY_TIME,
     hold_timer |-> 0,
     hold_time |-> DEFAULT_HOLD_TIME,
     keepalive_timer |-> 0,
     keepalive_time |-> DEFAULT_KEEPALIVE_TIME]

(* A mutant of conn_retry_time: the value lands in keepalive_time.         *)
ConnRetryTimeSetsKeep(self, time) == [self EXCEPT !.keepalive_time = time]

(* PeerSessionBuilder::conn_retry_time.                                    *)
ConnRetryTime(self, time) == [self EXCEPT !.connect_retry_time = time]

(* A mutant of hold_time: the keepalive time follows the hold time.        *)
HoldTimeDerivesKeep(self, time) ==
    [self EXCEPT !.hold_time = time, !.keepalive_time = time \div 3]

(* PeerSessionBuilder::hold_time.                                          *)
HoldTime(self, time) == [self EXCEPT !.hold_time = time]

(* PeerSessionBuilder::keep_time.                                          *)
KeepTime(self, time) == [self EXCEPT !.keepalive_time = time]

(* PeerSessionBuilder::build.                                              *)
BuildSession(self) ==
    [state |-> self.state,
     connect_retry_ctr |-> self.connect_retry_ctr,
     connect_retry_timer |-> self.connect_retry_timer,
     connect_retry_time |-> self.connect_retry_time,
     hold_timer |-> self.hold_timer,
     hold_time |-> self.hold_time,
     keepalive_timer |-> self.keepalive_timer,
     keepalive_time |-> self.keepalive_time]

(* A mutant of reset_hold_timer: the timer keeps its value.                *)
ResetHoldTimerSkipped(self) == self

(* PeerSession::reset_connect_retry_ctr, reset_connect_retry_timer,        *)
(* reset_hold_timer and reset_keep_timer.                                  *)
ResetConnectRetryCtr(self) == [self EXCEPT !.connect_retry_ctr = 0]
ResetConnectRetryTimer(self) == [self EXCEPT !.connect_retry_timer = 0]
ResetHoldTimer(self) == [self EXCEPT !.hold_timer = 0]
ResetKeepTimer(self) == [self EXCEPT !.keepalive_timer = 0]

(* The times handed to the builder's setters.                              *)
Times == {0, 10, 20, 30, 90, 180}

InitSession ==
    /\ TableIdle
    /\ lhs = DefaultData /\ rhs = DefaultData /\ third = DefaultData
    /\ ords = <<>>
    /\ req = NoRequest /\ built = None /\ buf = None /\ decoded = None
    /\ builder = Some(PeerSessionBuilderNew)
    /\ calls = NoCalls
    /\ session = None
    /\ sent = <<>>
    /\ event = NoEvent
    /\ SideIdle

tableVars == <<table, table_version, pa_table, op, payload, ret, old, prev>>
cmpVars == <<lhs, rhs, third, ords>>
codecVars == <<req, built, buf, decoded>>

(* builder.conn_retry_time(time)                                           *)
SetConnRetryTime ==
    /\ IsSome(builder)
    /\ \E time \in Times :
          /\ builder' = Some(ConnRetryTime(Unwrap(builder), time))
          /\ calls' = [calls EXCEPT !.conn_retry_time = Some(time)]
    /\ UNCHANGED <<tableVars, cmpVars, codecVars, internVars, runVars,
                  session, sent, event>>

(* builder.hold_time(time)                                                 *)
SetHoldTime ==
    /\ IsSome(builder)
    /\ \E time \in Times :
          /\ builder' = Some(HoldTime(Unwrap(builder), time))
          /\ calls' = [calls EXCEPT !.hold_time = Some(time)]
    /\ UNCHANGED <<tableVars, cmpVars, codecVars, internVars, runVars,
                  session, sent, event>>

(* builder.keep_time(time)                                                 *)
SetKeepTime ==
    /\ IsSome(builder)
    /\ \E time \in Times :
          /\ builder' = Some(KeepTime(Unwrap(builder), time))
          /\ calls' = [calls EXCEPT !.keep_time = Some(time)]
    /\ UNCHANGED <<tableVars, cmpVars, codecVars, internVars, runVars,
                  session, sent, event>>

(* builder.build(): the builder is consumed.                               *)
BuildPeer ==
    /\ IsSome(builder)
    /\ session' = Some(BuildSession(Unwrap(builder)))
    /\ builder' = None
    /\ UNCHANGED <<tableVars, cmpVars, codecVars, internVars, runVars,
                  calls, sent, event>>

NextSession == SetConnRetryTime \/ SetHoldTime \/ SetKeepTime \/ BuildPeer

SpecSession == InitSession /\ [][NextSession]_vars

(* The session of a peer at any point of its life: any state, the counter  *)
(* and the timers anywhere up to MaxTimer.                                 *)
MaxTimer == 2
MaxEvents == 2

Sessions ==
    [state : State,
     connect_retry_ctr : 0..1,
     connect_retry_timer : 0..MaxTimer,
     connect_retry_time : {DEFAULT_CONNECT_RETRY_TIME},
     hold_timer : 0..MaxTimer,
     hold_time : {DEFAULT_HOLD_TIME},
     keepalive_timer : 0..MaxTimer,
     keepalive_time : {DEFAULT_KEEPALIVE_TIME}]

InitFsm ==
    /\ TableIdle
    /\ lhs = DefaultData /\ rhs = DefaultData /\ third = DefaultData
    /\ ords = <<>>
    /\ req = NoRequest /\ built = None /\ buf = None /\ decoded = None
    /\ builder = None
    /\ calls = NoCalls
    /\ session \in {Some(x) : x \in Sessions}
    /\ sent = <<>>
    /\ event = NoEvent
    /\ SideIdle

(* The session reset: the counter and the three timers go back to 0.       *)
ResetSession(self) ==
    ResetKeepTimer(ResetHoldTimer(ResetConnectRetryTimer(ResetConnectRetryCtr(self))))

(* The event HoldTimerExpires, in any state (fsm): NOTIFICATION with the   *)
(* code HoldTimerExpired is sent, the session is reset and moves to Idle.  *)
HoldTimerExpires ==
    /\ IsSome(session)
    /\ Len(sent) < MaxEvents
    /\ sent' = Append(sent, NotificationNew([code |-> "HoldTimerExpired",
                                             inner |-> None], 0))
    /\ session' = Some([ResetSession(Unwrap(session)) EXCEPT !.state = "Idle"])
    /\ event' = [name |-> "HoldTimerExpires", from |-> Unwrap(session).state]
    /\ UNCHANGED <<tableVars, cmpVars, codecVars, internVars, runVars,
                  builder, calls>>

NextFsm == HoldTimerExpires

SpecFsm == InitFsm /\ [][NextFsm]_vars

-----------------------------------------------------------------------------
(* PathAttributeTableEntry::new and PathAttributeTable::insert on their    *)
(* own: two entries are built from the same decision data and two vectors  *)
(* of path attributes, and both are inserted into an empty table.          *)
MaxAttrs == 3       \* path attributes of one vector

Attrs == { Origin(0), Med(0), Med(1), AtomicAggregate }
AttrVecs == UNION { [1..k -> Attrs] : k \in 0..MaxAttrs }

InitIntern ==
    /\ TableIdle
    /\ lhs = DefaultData /\ rhs = DefaultData /\ third = DefaultData
    /\ ords = <<>>
    /\ req = NoRequest /\ built = None /\ buf = None /\ decoded = None
    /\ builder = None /\ calls = NoCalls /\ session = None
    /\ sent = <<>> /\ event = NoEvent
    /\ vecs \in AttrVecs \X AttrVecs
    /\ entries = None
    /\ interned = EmptyBag
    /\ RunsIdle

(* pa_table.insert(PathAttributeTableEntry::new(ddata, vecs[1])) and the   *)
(* same for vecs[2].                                                       *)
Intern ==
    /\ entries = None
    /\ \E e1 \in {PathAttributeTableEntry(DefaultData, vecs[1])},
          e2 \in {PathAttributeTableEntry(DefaultData, vecs[2])} :
          /\ entries' = Some(<<e1, e2>>)
          /\ interned' = PatInsert(PatInsert(EmptyBag, e1), e2)
    /\ UNCHANGED <<tableVars, cmpVars, codecVars, fsmVars, vecs, runVars>>

NextIntern == Intern

SpecIntern == InitIntern /\ [][NextIntern]_vars

-----------------------------------------------------------------------------
(* Two BgpTables side by side: each starts empty and walks the payloads of *)
(* its own plan in order; the second plan holds the payloads of the first  *)
(* in another order. The tables share nothing, so the second is run once   *)
(* the first is through its plan.                                          *)
MaxPlan == 3        \* payloads of one plan

Received(b, routes, withdrawn) ==
    [peer_id |-> b.peer_id, peer_addr |-> b.peer_addr, last_as |-> b.last_as,
     local_pref |-> b.local_pref, as_path_len |-> b.as_path_len,
     origin |-> b.origin, med |-> b.med, route_source |-> b.route_source,
     igp_cost |-> b.igp_cost, path_attrs |-> b.path_attrs,
     routes |-> Opt(routes), withdrawn_routes |-> Opt(withdrawn)]

(* Payloads of three peers for the destinations 10/8 and 10/16: peers 1    *)
(* and 3 (of one AS) advertise, peers 1 and 2 withdraw as well.            *)
PlanPayloads ==
    LET r8 == Route(8, V4(10))
        r16 == Route(16, V4(10))
        b1 == Bundle(1, 65000, 1, 0, <<Med(1), Origin(0)>>)
        b2 == Bundle(2, 65001, 0, 1, <<Med(0), Origin(0)>>)
        b3 == Bundle(3, 65000, 0, 2, <<Origin(0), Med(0)>>)
    IN  { Received(b1, <<r8>>, <<>>),
          Received(b2, <<r8>>, <<>>),
          Received(b3, <<r8>>, <<>>),
          Received(b2, <<r16>>, <<r8>>),
          Received(b1, <<r8, r16>>, <<>>),
          Received(b1, <<>>, <<r8, r16>>) }

Plans == UNION { [1..k -> PlanPayloads] : k \in 0..MaxPlan }

Reorderings(seq) ==
    { [i \in DOMAIN seq |-> seq[f[i]]] :
        f \in { g \in [DOMAIN seq -> DOMAIN seq] :
                  \A i, j \in DOMAIN seq : g[i] = g[j] => i = j } }

InitRuns ==
    /\ TableIdle
    /\ lhs = DefaultData /\ rhs = DefaultData /\ third = DefaultData
    /\ ords = <<>>
    /\ req = NoRequest /\ built = None /\ buf = None /\ decoded = None
    /\ builder = None /\ calls = NoCalls /\ session = None
    /\ sent = <<>> /\ event = NoEvent
    /\ InternIdle
    /\ plan \in UNION { { <<a, b>> : b \in Reorderings(a) } : a \in Plans }
    /\ steps = <<0, 0>>
    /\ runs = <<Snapshot(EmptyMap, EmptyBag, 0), Snapshot(EmptyMap, EmptyBag, 0)>>

(* The table, PAT and version that walk(rx) leaves.                        *)
AfterWalk(snap, rx) ==
    LET r == WalkResult(snap.table, snap.pa_table, snap.table_version, rx)
    IN  Snapshot(r.table, r.pa_table, r.table_version)

(* The first table walks the next payload of its plan.                     *)
WalkFirst ==
    /\ steps[1] < Len(plan[1])
    /\ \E after \in {AfterWalk(runs[1], plan[1][steps[1] + 1])} :
          runs' = [runs EXCEPT ![1] = after]
    /\ steps' = [steps EXCEPT ![1] = @ + 1]
    /\ UNCHANGED <<tableVars, cmpVars, codecVars, fsmVars, internVars, plan>>

(* The second table walks the next payload of its plan.                    *)
WalkSecond ==
    /\ steps[1] = Len(plan[1])
    /\ steps[2] < Len(plan[2])
    /\ \E after \in {AfterWalk(runs[2], plan[2][steps[2] + 1])} :
          runs' = [runs EXCEPT ![2] = after]
    /\ steps' = [steps EXCEPT ![2] = @ + 1]
    /\ UNCHANGED <<tableVars, cmpVars, codecVars, fsmVars, internVars, plan>>

NextRuns == WalkFirst \/ WalkSecond

SpecRuns == InitRuns /\ [][NextRuns]_vars

-----------------------------------------------------------------------------
(* Vocabulary of the properties.                                           *)
Reverse(o) == IF o = "Less" THEN "Greater" ELSE IF o = "Greater" THEN "Less" ELSE "Equal"
ListOf(opt) == IF IsSome(opt) THEN Unwrap(opt) ELSE <<>>
V4Routes(list) == {r \in Range(list) : IsSome(PrefixV4(r))}
KeyRoute(key) == Route(key[2], V4(key[1]))
PathsOf(tbl, key) == IF key \in DOMAIN tbl THEN Range(tbl[key]) ELSE {}
BestOf(tbl, key) == IF key \in DOMAIN tbl THEN Some(Bestpath(tbl[key])) ELSE None
PayloadEntry == PathAttributeTableEntry(DecisionProcessData(payload), payload.path_attrs)
Walked == op = "walk"
Advertised == V4Routes(ListOf(payload.routes))
Withdrawn == V4Routes(ListOf(payload.withdrawn_routes))
DisjointPayload == Advertised \cap Withdrawn = {}
InAdvertisedUnder(key, attrs) ==
    attrs \in DOMAIN ret.adv_routes /\ KeyRoute(key) \in Range(ret.adv_routes[attrs])
InWithdrawn(key) == KeyRoute(key) \in Range(ret.removed_routes)
AllKeys == DOMAIN old.table \cup DOMAIN table

(* C1: after a walk whose routes and withdrawn routes are disjoint, every  *)
(* destination whose bestpath differs from the one before the walk is in   *)
(* the returned delta: withdrawn if it was deleted, otherwise advertised   *)
(* under the attributes of its new bestpath.                               *)
C1_DeltaComplete ==
    (Walked /\ DisjointPayload) =>
        \A key \in AllKeys :
            BestOf(old.table, key) # BestOf(table, key) =>
                IF key \in DOMAIN table
                THEN InAdvertisedUnder(key, Bestpath(table[key]).raw_path_attrs)
                ELSE InWithdrawn(key)

(* C2: the bestpath of every destination is minimal under the decision     *)
(* order: no stored path compares strictly less than it.                   *)
C2_BestpathMinimal ==
    \A key \in DOMAIN table :
        \A i \in DOMAIN table[key] :
            EntryCmp(table[key][i], Bestpath(table[key])) # "Less"

(* C3: no destination of the table has an empty heap, and a withdrawal     *)
(* that removes the last path of a destination removes the destination in  *)
(* the same walk.                                                          *)
C3_NoEmptyEntry ==
    /\ \A key \in DOMAIN table : table[key] # <<>>
    /\ Walked =>
         \A d \in Withdrawn :
            (\A x \in PathsOf(old.table, DestKey(d)) :
                 x.decision_data.peer_id = payload.peer_id)
            => DestKey(d) \notin DOMAIN table

C3_Witness ==
    /\ Walked
    /\ \E d \in Withdrawn :
          /\ DestKey(d) \in DOMAIN old.table
          /\ DestKey(d) \notin DOMAIN table
          /\ DOMAIN table # {}

(* C4: a withdrawal of destination d by peer p removes from d's heap       *)
(* exactly the paths whose peer id is p, whatever their bundle and the     *)
(* bundle of the withdrawing payload, and no path of another peer.         *)
C4_WithdrawByPeer ==
    Walked =>
        \A d \in Withdrawn :
            LET key == DestKey(d)
                kept == {x \in PathsOf(old.table, key) :
                            x.decision_data.peer_id # payload.peer_id}
            IN  /\ PathsOf(table, key) = kept
                /\ (key \in DOMAIN table => Len(table[key]) = Cardinality(kept))

C4_Witness ==
    /\ Walked
    /\ \E d \in Withdrawn :
          LET before == PathsOf(old.table, DestKey(d))
          IN  /\ \E x, y \in before :
                    /\ x # y
                    /\ x # PayloadEntry /\ y # PayloadEntry
                    /\ x.decision_data.peer_id = payload.peer_id
                    /\ y.decision_data.peer_id = payload.peer_id
              /\ \E z \in before : z.decision_data.peer_id # payload.peer_id
              /\ DestKey(d) \in DOMAIN table

(* The last walk withdrew, for the same peer, exactly the IPv4 prefixes    *)
(* that the walk before it advertised (WithdrawAdvertised).                *)
RoundTrip ==
    /\ Walked
    /\ prev.advertise_only
    /\ \A r \in Range(prev.routes) : IsSome(PrefixV4(r))

RoundTripRestores ==
    /\ Counters(table, pa_table) = prev.counters
    /\ Range(ret.removed_routes) = Range(prev.routes)
    /\ Len(ret.removed_routes) = Len(prev.routes)

(* C5 as stated: from any table state, walk(advertise S from p) followed   *)
(* by walk(withdraw S from p) restores the three counters and the second   *)
(* walk's withdrawn delta is exactly S.                                    *)
C5_RoundTripAnyTable == RoundTrip => RoundTripRestores

(* C5 amended: the same, from a table state in which no prefix of S is a   *)
(* destination.                                                            *)
C5_RoundTripFresh ==
    (RoundTrip /\ \A r \in Range(prev.routes) : DestKey(r) \notin prev.dests)
        => RoundTripRestores

C5_Witness ==
    /\ RoundTrip
    /\ \A r \in Range(prev.routes) : DestKey(r) \notin prev.dests
    /\ prev.dests # {}
    /\ prev.counters.num_paths >= 2
    /\ ~BagIn(PayloadEntry, old.pa_table)

(* C6: a walk of peer p that advertises prefixes p has already advertised  *)
(* with the identical bundle returns an empty delta.                       *)
C6_ReadvertiseNoop ==
    (/\ Walked
     /\ Advertised # {}
     /\ ~IsSome(payload.withdrawn_routes)
     /\ \A d \in Advertised : PayloadEntry \in PathsOf(old.table, DestKey(d)))
    => (ret.removed_routes = <<>> /\ DOMAIN ret.adv_routes = {})

(* C7: table_version never decreases, and strictly increases across every  *)
(* walk that returns a non-empty delta.                                    *)
C7_VersionMonotone ==
    /\ table_version >= old.table_version
    /\ (Walked /\ (ret.removed_routes # <<>> \/ DOMAIN ret.adv_routes # {}))
           => table_version > old.table_version

C7_Witness ==
    /\ Walked
    /\ ret.removed_routes # <<>>
    /\ DOMAIN ret.adv_routes # {}
    /\ table_version = old.table_version + 1

(* Whether the last walk changed the destinations or any heap's paths.     *)
DestinationsChanged == DOMAIN table # DOMAIN old.table
PathsChanged == \E key \in AllKeys : PathsOf(table, key) # PathsOf(old.table, key)

(* C8 as stated: every walk that adds or removes a destination, or adds or *)
(* removes a path in a heap, increases table_version.                      *)
C8_BumpOnEveryChange ==
    (Walked /\ (DestinationsChanged \/ PathsChanged))
        => table_version > old.table_version

(* C8 amended: every walk that adds or removes a destination increases     *)
(* table_version (a walk that only adds or removes paths of destinations   *)
(* that stay may leave it as it was).                                      *)
C8_BumpOnDestinationChange ==
    (Walked /\ DestinationsChanged) => table_version > old.table_version

C8_Witness ==
    /\ Walked
    /\ \E key \in DOMAIN table : key \notin DOMAIN old.table
    /\ ret.removed_routes = <<>>
    /\ old.table_version > 0

(* C9: cmp is a total order: cmp(a, b) is the reverse of cmp(b, a), and    *)
(* a <= b with b <= c implies a <= c.                                      *)
C9_TotalOrder ==
    ords # <<>> =>
        /\ ords.ab = Reverse(ords.ba)
        /\ (ords.ab \in {"Less", "Equal"} /\ ords.bc \in {"Less", "Equal"})
               => ords.ac \in {"Less", "Equal"}

(* C10: two summaries compare Equal exactly when they are equal records.   *)
C10_EqualIffSame == ords # <<>> => (ords.ab = "Equal" <=> lhs = rhs)

(* The stages of the decision ladder, each as the comparison it makes.     *)
SourceRank(rs) == IF rs = "Ibgp" THEN 1 ELSE 0
StageOrd(k, a, b) ==
    CASE k = 1 -> IntCmp(Unwrap(b.local_pref), Unwrap(a.local_pref))
      [] k = 2 -> IntCmp(a.as_path_len, b.as_path_len)
      [] k = 3 -> IntCmp(a.origin, b.origin)
      [] k = 4 -> IntCmp(a.med, b.med)
      [] k = 5 -> IntCmp(SourceRank(a.route_souce), SourceRank(b.route_souce))
      [] k = 6 -> IntCmp(a.igp_cost, b.igp_cost)
      [] k = 7 -> IntCmp(a.peer_id, b.peer_id)
      [] k = 8 -> IF a.peer_addr = b.peer_addr THEN "Equal"
                  ELSE IF a.peer_addr[1] < b.peer_addr[1]
                          \/ (a.peer_addr[1] = b.peer_addr[1]
                              /\ a.peer_addr[2] < b.peer_addr[2])
                       THEN "Less" ELSE "Greater"

(* The lexicographic comparison over the stages in S: the first stage of S *)
(* at which a and b differ decides.                                        *)
LexOver(S, a, b) ==
    LET differ == {k \in S : StageOrd(k, a, b) # "Equal"}
    IN  IF differ = {} THEN "Equal"
        ELSE StageOrd(CHOOSE k \in differ : \A j \in differ : k <= j, a, b)

BothHaveLocalPref == IsSome(lhs.local_pref) /\ IsSome(rhs.local_pref)
OneHasLocalPref == IsSome(lhs.local_pref) # IsSome(rhs.local_pref)
Compared == ords # <<>>

(* C11: for two summaries that both carry a local_pref and have equal      *)
(* last_as, cmp is the lexicographic comparison of (local_pref descending, *)
(* as_path_len, origin, med, route source, igp_cost, peer_id, peer_addr):  *)
(* the first stage at which they differ decides, whatever comes later.     *)
C11_Ladder ==
    (Compared /\ BothHaveLocalPref /\ lhs.last_as = rhs.last_as)
        => ords.ab = LexOver(1..8, lhs, rhs)

C11_Witness ==
    /\ Compared /\ BothHaveLocalPref /\ lhs.last_as = rhs.last_as
    /\ \A k \in 1..4 : StageOrd(k, lhs, rhs) = "Equal"
    /\ StageOrd(5, lhs, rhs) = "Less"
    /\ \A k \in 6..8 : StageOrd(k, lhs, rhs) = "Greater"
    /\ ords.ab = "Less"

(* C12: MED is gated by last_as. When last_as differs the med values have  *)
(* no effect on the comparison; when last_as is equal and stages 1-3 tie,  *)
(* the lower med is better, before route source, IGP cost and the peer     *)
(* fields are consulted.                                                   *)
C12_MedGated ==
    Compared =>
        /\ lhs.last_as # rhs.last_as
              => ords.ab = Cmp([lhs EXCEPT !.med = 0], [rhs EXCEPT !.med = 0])
        /\ (/\ lhs.last_as = rhs.last_as
            /\ lhs.local_pref = rhs.local_pref
            /\ lhs.as_path_len = rhs.as_path_len
            /\ lhs.origin = rhs.origin
            /\ lhs.med # rhs.med)
              => ords.ab = IntCmp(lhs.med, rhs.med)

C12_Witness ==
    /\ Compared
    /\ lhs.last_as # rhs.last_as
    /\ lhs.local_pref = rhs.local_pref
    /\ lhs.as_path_len = rhs.as_path_len /\ lhs.origin = rhs.origin
    /\ lhs.med < rhs.med
    /\ lhs.igp_cost > rhs.igp_cost
    /\ ords.ab = "Greater"

(* C13 as stated: when exactly one of the two summaries has no local_pref, *)
(* the side without it orders before the other, whatever the later stages. *)
C13_NoneSmaller ==
    (Compared /\ OneHasLocalPref)
        => ords.ab = (IF IsSome(rhs.local_pref) THEN "Less" ELSE "Greater")

(* C13 amended: when exactly one of the two summaries has no local_pref,   *)
(* stage 1 is skipped and the later stages alone decide (med only for      *)
(* equal last_as).                                                         *)
C13_NoneSkipsStage ==
    (Compared /\ OneHasLocalPref)
        => ords.ab = LexOver(IF lhs.last_as = rhs.last_as
                             THEN 2..8 ELSE (2..8) \ {4}, lhs, rhs)

C13_Witness ==
    /\ Compared
    /\ lhs.local_pref = None /\ IsSome(rhs.local_pref)
    /\ ords.ab = "Greater"
    /\ ords.ba = "Less"

(* C14: the path-attribute table never holds two handles to equal entries, *)
(* and a walk whose entry equals one already interned does not grow it.    *)
C14_InternUnique ==
    /\ \A e \in BagToSet(pa_table) : CopiesIn(e, pa_table) = 1
    /\ (Walked /\ BagIn(PayloadEntry, old.pa_table))
          => NumPaEntries(pa_table) <= NumPaEntries(old.pa_table)

C14_Witness ==
    /\ Walked
    /\ BagIn(PayloadEntry, old.pa_table)
    /\ BagIn(PayloadEntry, pa_table)
    /\ payload.path_attrs # PayloadEntry.raw_path_attrs
    /\ NumPaEntries(pa_table) >= 2

Ascending(raw) ==
    \A i \in 1..(Len(raw) - 1) : raw[i].attr_type_code <= raw[i + 1].attr_type_code

(* C15: every entry of the path-attribute table and every bundle that keys *)
(* an advertised map has its attributes in ascending type-code order,      *)
(* whatever order the payload had them in.                                 *)
C15_SortedAttrs ==
    /\ \A e \in BagToSet(pa_table) : Ascending(e.raw_path_attrs)
    /\ \A attrs \in DOMAIN ret.adv_routes : Ascending(attrs)

C15_Witness ==
    /\ Walked
    /\ Len(payload.path_attrs) = 3
    /\ ~Ascending(payload.path_attrs)
    /\ BagIn(PayloadEntry, pa_table)
    /\ PayloadEntry.raw_path_attrs \in DOMAIN ret.adv_routes

(* The last walk only advertised IPv4 routes, into an empty table.         *)
FirstAdvertisement ==
    /\ Walked
    /\ old.table = EmptyMap
    /\ IsSome(payload.routes) /\ ~IsSome(payload.withdrawn_routes)
    /\ \A r \in Range(Unwrap(payload.routes)) : IsSome(PrefixV4(r))

(* C16: from an empty table, advertising N distinct IPv4 routes from one   *)
(* peer with one bundle gives num_destinations = N, num_pa_entries = 1 and *)
(* num_paths = N; withdrawing the same N routes from the same peer next    *)
(* returns the three counters to 0 and lists exactly those N prefixes as   *)
(* withdrawn.                                                              *)
C16_EmptyTableRoundTrip ==
    /\ FirstAdvertisement
          => Counters(table, pa_table) =
                 [num_destinations |-> Len(Unwrap(payload.routes)),
                  num_paths |-> Len(Unwrap(payload.routes)),
                  num_pa_entries |-> 1]
    /\ (RoundTrip /\ prev.dests = {})
          => /\ Counters(table, pa_table) =
                    [num_destinations |-> 0, num_paths |-> 0, num_pa_entries |-> 0]
             /\ Range(ret.removed_routes) = Range(prev.routes)
             /\ Len(ret.removed_routes) = Len(prev.routes)

C16_Witness ==
    /\ RoundTrip
    /\ prev.dests = {}
    /\ Len(prev.routes) >= 2
    /\ table = EmptyMap
    /\ Len(ret.removed_routes) >= 2

(* The wire type codes of the message types.                               *)
WireTypeCode(message_type) ==
    CASE message_type = "Open" -> 1
      [] message_type = "Update" -> 2
      [] message_type = "Notification" -> 3
      [] message_type = "KeepAlive" -> 4

AllOnes == [i \in 1..16 |-> 255]

(* C17: encoding a Header emits exactly 19 octets: a marker of 16 octets   *)
(* 0xFF, the length as a big-endian u16, then the type octet; Header(100,  *)
(* Open) encodes to 16 x 0xFF, 0x00, 0x64, 0x01.                           *)
C17_HeaderOctets ==
    (IsSome(buf) /\ req.kind = "Header") =>
        /\ Len(Unwrap(buf)) = 19
        /\ Unwrap(buf) = AllOnes \o <<req.length \div 256, req.length % 256>>
                                 \o <<Unwrap(built).message_type>>
        /\ (req.length = 100 /\ req.message_type = "Open")
              => Unwrap(buf) = AllOnes \o <<0, 100, 1>>

(* C18: Header construction maps each message type to its wire type code   *)
(* (1 Open, 2 Update, 3 Notification, 4 Keepalive), and the mapping is     *)
(* injective.                                                              *)
C18_TypeCodes ==
    (IsSome(built) /\ req.kind = "Header") =>
        /\ Unwrap(built).message_type = WireTypeCode(req.message_type)
        /\ \A other \in MessageType :
              HeaderNew(req.length, other).message_type = Unwrap(built).message_type
                  => other = req.message_type

(* The subcodes each constructor is permitted to accept.                   *)
Permitted(family) ==
    CASE family = "msg_header_err" -> {1, 2, 3}
      [] family = "open_msg_err" -> {1, 2, 3, 4, 6}
      [] family = "update_msg_err" -> (1..11) \ {7}

(* C19: constructing a notification subcode succeeds exactly for the       *)
(* permitted sets and returns an error, constructing nothing, for every    *)
(* other u8 (0, Open subcode 5 and Update subcode 7 included).             *)
C19_SubcodeSets ==
    (IsSome(built) /\ req.kind = "Subcode") =>
        IF req.subcode \in Permitted(req.family)
        THEN Unwrap(built).ok /\ Unwrap(built).value.subcode = req.subcode
        ELSE ~Unwrap(built).ok /\ "value" \notin DOMAIN Unwrap(built)

(* C20: decoding the octets the encoder produced yields the message again  *)
(* and consumes every octet.                                               *)
C20_RoundTrip ==
    IsSome(decoded) =>
        /\ Unwrap(decoded).ok
        /\ Unwrap(decoded).rest = <<>>
        /\ Unwrap(decoded).value =
              (IF req.kind = "Header"
               THEN [length |-> req.length, message_type |-> req.message_type]
               ELSE Unwrap(built))

(* The value a builder field ends with: the last one its setter was given, *)
(* or the default.                                                         *)
Chosen(call, default) == IF IsSome(call) THEN Unwrap(call) ELSE default

(* C21: a built session starts in Idle with the connect-retry counter and  *)
(* the three timers at 0 and with connect_retry_time = 120, hold_time = 90 *)
(* and keepalive_time = 30, except that each setter replaces exactly its   *)
(* own field.                                                              *)
C21_BuilderDefaults ==
    IsSome(session) =>
        Unwrap(session) =
            [state |-> "Idle",
             connect_retry_ctr |-> 0,
             connect_retry_timer |-> 0,
             connect_retry_time |-> Chosen(calls.conn_retry_time, 120),
             hold_timer |-> 0,
             hold_time |-> Chosen(calls.hold_time, 90),
             keepalive_timer |-> 0,
             keepalive_time |-> Chosen(calls.keep_time, 30)]

C21_Witness ==
    /\ IsSome(session)
    /\ calls = [conn_retry_time |-> None, hold_time |-> Some(10), keep_time |-> None]
    /\ Unwrap(session).hold_time = 10
    /\ Unwrap(session).keepalive_time = 30

(* C22 as stated: every built session has keepalive_time = hold_time / 3,  *)
(* also when the hold time or the keepalive time was changed.              *)
C22_KeepaliveThird ==
    IsSome(session) => Unwrap(session).keepalive_time = Unwrap(session).hold_time \div 3

(* C22 amended: a session built without a call of hold_time or keep_time   *)
(* has keepalive_time = hold_time / 3 = 30.                                *)
C22_DefaultKeepaliveThird ==
    (IsSome(session) /\ calls.hold_time = None /\ calls.keep_time = None) =>
        /\ Unwrap(session).keepalive_time = Unwrap(session).hold_time \div 3
        /\ Unwrap(session).keepalive_time = 30

C22_Witness ==
    /\ IsSome(session)
    /\ calls.hold_time = None /\ calls.keep_time = None
    /\ calls.conn_retry_time = Some(20)
    /\ Unwrap(session).connect_retry_time = 20

-----------------------------------------------------------------------------
(* C24: for every attribute bundle k and route r under k in the advertised *)
(* map returned by a walk whose routes and withdrawn routes are disjoint,  *)
(* r is a destination of the table after the walk and the raw path         *)
(* attributes of its bestpath are k.                                       *)
C24_AdvertisedIsBestpath ==
    (Walked /\ DisjointPayload) =>
        \A k \in DOMAIN ret.adv_routes :
            \A r \in Range(ret.adv_routes[k]) :
                /\ IsSome(PrefixV4(r))
                /\ DestKey(r) \in DOMAIN table
                /\ Bestpath(table[DestKey(r)]).raw_path_attrs = k

(* One walk advertises a route of an existing destination under the        *)
(* payload's bundle and, by withdrawing, another under the bundle of the   *)
(* path another peer left there.                                           *)
C24_Witness ==
    /\ Walked /\ DisjointPayload
    /\ Cardinality(DOMAIN ret.adv_routes) = 2
    /\ \A k \in DOMAIN ret.adv_routes :
          \A r \in Range(ret.adv_routes[k]) : DestKey(r) \in DOMAIN old.table

(* The entries some path of some destination heap refers to.               *)
Referenced(tbl) == UNION {Range(tbl[key]) : key \in DOMAIN tbl}

(* C25: after every walk the path-attribute table holds exactly the        *)
(* entries referenced by a path of some destination heap: the entry        *)
(* interned for the payload is gone unless a heap holds it, and an entry   *)
(* a heap holds (a live handle besides the table's own) is never dropped.  *)
C25_PatIsReferenced ==
    Walked =>
        /\ BagToSet(pa_table) = Referenced(table)
        /\ \A e \in BagToSet(old.pa_table) :
              StrongCount(table, e) > 1 => BagIn(e, pa_table)
        /\ PayloadEntry \notin Referenced(table) => ~BagIn(PayloadEntry, pa_table)

(* A withdraw-only walk interned an entry no heap ever held, dropped an    *)
(* entry whose last path it removed and kept one another heap still holds. *)
C25_Witness ==
    /\ Walked
    /\ ~IsSome(payload.routes) /\ IsSome(payload.withdrawn_routes)
    /\ ~BagIn(PayloadEntry, old.pa_table)
    /\ ~BagIn(PayloadEntry, pa_table)
    /\ \E e \in BagToSet(old.pa_table) : ~BagIn(e, pa_table)
    /\ \E e \in BagToSet(old.pa_table) : BagIn(e, pa_table)

(* How often pa occurs in a vector of path attributes.                     *)
Occurrences(vec, pa) == Cardinality({i \in DOMAIN vec : vec[i] = pa})
SameCollection(v, w) ==
    \A pa \in Range(v) \cup Range(w) : Occurrences(v, pa) = Occurrences(w, pa)

(* C26: two entries built from equal decision data and the same collection *)
(* of path attributes in any two orders are equal and interning both gives *)
(* one table entry; entries built from different collections are unequal.  *)
C26_OrderInsensitive ==
    IsSome(entries) =>
        LET e == Unwrap(entries)
        IN  IF SameCollection(vecs[1], vecs[2])
            THEN e[1] = e[2] /\ NumPaEntries(interned) = 1
            ELSE e[1] # e[2] /\ NumPaEntries(interned) = 2

(* C27: no destination heap holds two equal path entries, and a walk that  *)
(* advertises a destination whose heap already holds the payload's entry   *)
(* leaves that heap as it was, so num_paths counts it once.                *)
C27_NoDuplicatePath ==
    /\ \A key \in DOMAIN table :
          \A i, j \in DOMAIN table[key] : table[key][i] = table[key][j] => i = j
    /\ Walked =>
          \A r \in Advertised \ Withdrawn :
              (DestKey(r) \in DOMAIN old.table /\ IsIn(old.table[DestKey(r)], PayloadEntry))
                  => table[DestKey(r)] = old.table[DestKey(r)]

(* A walk advertised again, with nothing else in the payload, a route that *)
(* the same entry already had a path to, next to a path of another entry.  *)
C27_Witness ==
    /\ Walked
    /\ Withdrawn = {}
    /\ \E r \in Advertised :
          /\ DestKey(r) \in DOMAIN old.table
          /\ IsIn(old.table[DestKey(r)], PayloadEntry)
          /\ Len(old.table[DestKey(r)]) >= 2
    /\ NumPaths(table) = NumPaths(old.table)

(* Both tables are through their plans.                                    *)
RunsDone == steps = <<Len(plan[1]), Len(plan[2])>>

(* C28: the bestpath of a destination depends only on the set of paths     *)
(* stored for it: two sequences of walks that leave a destination with the *)
(* same set of paths leave it with the same bestpath.                      *)
C28_BestpathOfSet ==
    RunsDone =>
        \A key \in DOMAIN runs[1].table \cap DOMAIN runs[2].table :
            Range(runs[1].table[key]) = Range(runs[2].table[key])
                => Bestpath(runs[1].table[key]) = Bestpath(runs[2].table[key])

(* The second plan is the first with its last two payloads, which come     *)
(* from different peers, exchanged.                                        *)
LastTwoSwapped ==
    LET n == Len(plan[1])
    IN  /\ n >= 2
        /\ plan[1][n].peer_id # plan[1][n - 1].peer_id
        /\ plan[2] = [plan[1] EXCEPT ![n] = plan[1][n - 1], ![n - 1] = plan[1][n]]

SameContents(a, b) ==
    /\ DOMAIN a.table = DOMAIN b.table
    /\ \A key \in DOMAIN a.table : Range(a.table[key]) = Range(b.table[key])
    /\ a.pa_table = b.pa_table

(* C30: walks from different peers commute on the table contents: from the *)
(* same state, walk(rx1); walk(rx2) and walk(rx2); walk(rx1) leave the     *)
(* same destinations, the same set of paths in each and the same PAT.      *)
C30_WalksCommute == (RunsDone /\ LastTwoSwapped) => SameContents(runs[1], runs[2])

(* From a table that holds paths, one peer withdrew a route the other      *)
(* advertised, in either order, and the table versions came out different. *)
C30_Witness ==
    /\ RunsDone /\ LastTwoSwapped
    /\ Len(plan[1]) = MaxPlan
    /\ \E i, j \in {Len(plan[1]) - 1, Len(plan[1])} :
          /\ i # j
          /\ V4Routes(ListOf(plan[1][i].routes))
                \cap V4Routes(ListOf(plan[1][j].withdrawn_routes)) # {}
    /\ NumPaths(runs[1].table) >= 2
    /\ runs[1].table_version # runs[2].table_version

(* The last walk carried withdrawn routes only, and every one of them is   *)
(* no destination of the table or has no path of the payload's peer.       *)
NothingToWithdraw ==
    /\ Walked
    /\ ~IsSome(payload.routes)
    /\ IsSome(payload.withdrawn_routes)
    /\ \A r \in Withdrawn :
          \A path \in PathsOf(old.table, DestKey(r)) :
              path.decision_data.peer_id # payload.peer_id

(* C29: a walk that carries only withdrawn routes, each absent from the    *)
(* table or without a path of the payload's peer, returns an empty delta   *)
(* and leaves the destinations, the paths and bestpath of every heap, the  *)
(* path-attribute table and table_version unchanged.                       *)
C29_NothingToWithdraw ==
    NothingToWithdraw =>
        /\ ret = NoReturn
        /\ DOMAIN table = DOMAIN old.table
        /\ \A key \in DOMAIN old.table :
              /\ PathsOf(table, key) = PathsOf(old.table, key)
              /\ BestOf(table, key) = BestOf(old.table, key)
        /\ pa_table = old.pa_table
        /\ table_version = old.table_version

(* Such a walk named a destination that holds paths of another peer only   *)
(* and a prefix that is no destination, under a bundle not interned.       *)
C29_Witness ==
    /\ NothingToWithdraw
    /\ \E r \in Withdrawn : DestKey(r) \in DOMAIN old.table
    /\ \E r \in Withdrawn : DestKey(r) \notin DOMAIN old.table
    /\ ~BagIn(PayloadEntry, old.pa_table)
    /\ table = old.table
====
